---- MODULE Spec2Model ----
(***************************************************************************)
(* Model of the ads reporting scripts daily_report.py (ad level, compared  *)
(* with the day before) and weekly_report.py (ad-set level, compared with  *)
(* the week before).                                                       *)
(*                                                                         *)
(* Numbers.  Spend is an exact amount in minor currency units and the      *)
(* counters are naturals.  A ratio (ctr, cpc, cpl, a percentage) is the    *)
(* exact fraction <<n, d>> with d > 0; every value handed to the trend     *)
(* functions is such a fraction (a counter k is <<k, 1>>).  Binary         *)
(* floating point rounding is not modelled; the rounding of a percentage   *)
(* to the decimals it is printed with is (Fixed).                          *)
(*                                                                         *)
(* Python values.  None is the empty tuple and a present value x is <<x>>; *)
(* a key the API response lacks is the string Missing; a dict is a         *)
(* function; an OrderedDict is the sequence of its entries in insertion    *)
(* order, each entry carrying its key in the field id.                     *)
(***************************************************************************)
EXTENDS Integers, Sequences, FiniteSets, TLC

\* ------------------------------------------------------------------ bounds
MaxSpend == 2
MaxImpressions == 2
MaxClicks == 2
MaxValue == 2
MaxActions == 2

\* ------------------------------------------------------- python primitives
Missing == "<missing>"
None == <<>>
Some(x) == <<x>>

\* dict.get(key, default) on a field of a response row
Get(v, default) == IF v = Missing THEN default ELSE v

\* dict.get(key) on a lookup dict: None when the key is absent
Lookup(d, k) == IF k \in DOMAIN d THEN Some(d[k]) ELSE None

Rat(n, d) == <<n, d>>
Zero == Rat(0, 1)
Num(k) == Rat(k, 1)
RatEq(a, b) == a[1] * b[2] = b[1] * a[2]
RatLt(a, b) == a[1] * b[2] < b[1] * a[2]
IsZero(a) == a[1] = 0

Max2(a, b) == IF a >= b THEN a ELSE b

\* --------------------------------------------------------- extract_leads
DailyLeadTypes == {"lead", "offsite_conversion.fb_pixel_lead"}

LEAD_ACTION_TYPES ==
    {"lead", "offsite_conversion.fb_pixel_lead", "complete_registration",
     "offsite_conversion.fb_pixel_complete_registration",
     "offsite_complete_registration_add_meta_leads",
     "onsite_conversion.lead_grouped"}

\* daily: the value of the first action whose type is recognized
RECURSIVE daily_extract_leads(_)
daily_extract_leads(actions) ==
    IF actions = <<>> THEN 0
    ELSE IF Head(actions).action_type \in DailyLeadTypes
         THEN Head(actions).value
         ELSE daily_extract_leads(Tail(actions))

\* weekly: the running maximum, started at 0, over the recognized actions
RECURSIVE WeeklyBest(_, _)
WeeklyBest(actions, best) ==
    IF actions = <<>> THEN best
    ELSE WeeklyBest(Tail(actions),
                    IF Head(actions).action_type \in LEAD_ACTION_TYPES
                    THEN Max2(best, Head(actions).value)
                    ELSE best)

weekly_extract_leads(actions) ==
    IF actions = <<>> THEN 0 ELSE WeeklyBest(actions, 0)

\* ------------------------------------------------------ derived metrics
parse_ad_metrics(row) ==
    LET spend == row.spend
        impressions == row.impressions
        clicks == row.clicks
        leads == daily_extract_leads(row.actions)
    IN  [ad_id |-> Get(row.ad_id, ""),
         ad_name |-> Get(row.ad_name, "Unknown Ad"),
         campaign_name |-> Get(row.campaign_name, "Unknown Campaign"),
         campaign_id |-> Get(row.campaign_id, ""),
         adset_name |-> Get(row.adset_name, "Unknown Ad Set"),
         adset_id |-> Get(row.adset_id, ""),
         spend |-> spend,
         impressions |-> impressions,
         clicks |-> clicks,
         ctr |-> IF impressions > 0 THEN Rat(clicks * 100, impressions) ELSE Zero,
         cpc |-> IF clicks > 0 THEN Rat(spend, clicks) ELSE Zero,
         leads |-> leads,
         cpl |-> IF leads > 0 THEN Rat(spend, leads) ELSE Zero]

parse_adset(row) ==
    LET spend == row.spend
        clicks == row.clicks
        impressions == row.impressions
        leads == weekly_extract_leads(row.actions)
    IN  [campaign_id |-> Get(row.campaign_id, ""),
         campaign_name |-> Get(row.campaign_name, "Unknown"),
         adset_id |-> Get(row.adset_id, ""),
         adset_name |-> Get(row.adset_name, "Unknown"),
         spend |-> spend,
         impressions |-> impressions,
         clicks |-> clicks,
         leads |-> leads,
         ctr |-> IF impressions > 0 THEN Rat(clicks * 100, impressions) ELSE Zero,
         cpc |-> IF clicks > 0 THEN Rat(spend, clicks) ELSE Zero,
         cpl |-> IF leads > 0 THEN Rat(spend, leads) ELSE Zero]

\* calc_derived with the ctr left a fraction of 1 instead of a percentage
calc_derived_ctr_fraction(m) ==
    [k \in DOMAIN m \cup {"ctr", "cpc", "cpl"} |->
        CASE k = "ctr" -> IF m.impressions > 0
                          THEN Rat(m.clicks, m.impressions) ELSE Zero
          [] k = "cpc" -> IF m.clicks > 0 THEN Rat(m.spend, m.clicks) ELSE Zero
          [] k = "cpl" -> IF m.leads > 0 THEN Rat(m.spend, m.leads) ELSE Zero
          [] OTHER -> m[k]]

\* {**m, "ctr": ..., "cpc": ..., "cpl": ...}: m with the three ratios set anew
calc_derived(m) ==
    [k \in DOMAIN m \cup {"ctr", "cpc", "cpl"} |->
        CASE k = "ctr" -> IF m.impressions > 0
                          THEN Rat(m.clicks * 100, m.impressions) ELSE Zero
          [] k = "cpc" -> IF m.clicks > 0 THEN Rat(m.spend, m.clicks) ELSE Zero
          [] k = "cpl" -> IF m.leads > 0 THEN Rat(m.spend, m.leads) ELSE Zero
          [] OTHER -> m[k]]

\* ------------------------------------------------------------- trends
\* The emoji strings: "dash" is the no-change sign, "new" the new sign, green_up
\* and green_down the green circle with an arrow, red_up and red_down the red one.
\* trend_emoji testing "previous == 0" before "previous == 0 and current == 0"
trend_emoji_new_first(current, previous, lower_is_better) ==
    IF IsZero(previous) THEN "new"
    ELSE IF RatLt(previous, current)
         THEN (IF lower_is_better THEN "red_up" ELSE "green_up")
    ELSE IF RatLt(current, previous)
         THEN (IF lower_is_better THEN "green_down" ELSE "red_down")
    ELSE "dash"

\* trend_emoji that never looks at lower_is_better
trend_emoji_higher_is_better(current, previous, lower_is_better) ==
    IF IsZero(previous) /\ IsZero(current) THEN "dash"
    ELSE IF IsZero(previous) THEN "new"
    ELSE IF RatLt(previous, current) THEN "green_up"
    ELSE IF RatLt(current, previous) THEN "red_down"
    ELSE "dash"

trend_emoji(current, previous, lower_is_better) ==
    IF IsZero(previous) /\ IsZero(current) THEN "dash"
    ELSE IF IsZero(previous) THEN "new"
    ELSE IF RatLt(previous, current)
         THEN (IF lower_is_better THEN "red_up" ELSE "green_up")
    ELSE IF RatLt(current, previous)
         THEN (IF lower_is_better THEN "green_down" ELSE "red_down")
    ELSE "dash"

\* ((current - previous) / previous) * 100 as an exact fraction
Change(current, previous) ==
    Rat((current[1] * previous[2] - previous[1] * current[2]) * 100,
        current[2] * previous[1])

Abs(k) == IF k < 0 THEN -k ELSE k

\* f"{x:.<decimals>f}" of the fraction x (d > 0): "-" when x < 0, also before a zero
\* ("-0.0"), and the magnitude as a number of units of 10^-decimals, the nearest
\* one, of two equally near the even one
Fixed(x, decimals) ==
    LET n == Abs(x[1]) * 10^decimals
        q == n \div x[2]
        r == n % x[2]
    IN  [minus |-> x[1] < 0,
         units |-> IF 2 * r > x[2] \/ (2 * r = x[2] /\ q % 2 = 1) THEN q + 1 ELSE q]

\* the plus sign for a change that is not greater than 0
pct_change_plus_unless_negative(current, previous) ==
    IF IsZero(previous) THEN None
    ELSE LET change == Change(current, previous)
         IN  Some([sign |-> IF change[1] >= 0 THEN "+" ELSE "",
                   change |-> change, decimals |-> 1,
                   text |-> Fixed(change, 1)])

\* "" is None; " (<sign><change>%)" is the sign, the change, the number of
\* decimals it is printed with and the text it is printed as
pct_change(current, previous) ==
    IF IsZero(previous) THEN None
    ELSE LET change == Change(current, previous)
         IN  Some([sign |-> IF change[1] > 0 THEN "+" ELSE "",
                   change |-> change, decimals |-> 1,
                   text |-> Fixed(change, 1)])

trend(current, previous, lower_is_better) ==
    IF IsZero(previous) /\ IsZero(current) THEN "dash"
    ELSE IF IsZero(previous) THEN "new"
    ELSE IF RatLt(previous, current)
         THEN (IF lower_is_better THEN "red_up" ELSE "green_up")
    ELSE IF RatLt(current, previous)
         THEN (IF lower_is_better THEN "green_down" ELSE "red_down")
    ELSE "dash"

pct(current, previous) ==
    IF IsZero(previous) THEN None
    ELSE LET change == Change(current, previous)
         IN  Some([sign |-> IF change[1] > 0 THEN "+" ELSE "",
                   change |-> change, decimals |-> 0,
                   text |-> Fixed(change, 0)])

\* One "<label>: <value> <emoji><pct>" piece of a message text.
Field(label, value, emoji, p) ==
    [label |-> label, value |-> value, emoji |-> emoji, pct |-> p]

ZeroPrev ==
    [spend |-> 0, impressions |-> 0, clicks |-> 0, ctr |-> Zero, cpc |-> Zero,
     leads |-> 0, cpl |-> Zero]

\* prev is None or Some(bundle); a bundle without "ctr" is derived first
metrics_fields_with_trends(m, prev) ==
    LET p0 == IF prev = None THEN ZeroPrev ELSE prev[1]
        p == IF "ctr" \notin DOMAIN p0 THEN calc_derived(p0) ELSE p0
    IN  << Field("Spend", Num(m.spend),
                 trend_emoji(Num(m.spend), Num(p.spend), FALSE),
                 pct_change(Num(m.spend), Num(p.spend))),
           Field("Impressions", Num(m.impressions),
                 trend_emoji(Num(m.impressions), Num(p.impressions), FALSE),
                 pct_change(Num(m.impressions), Num(p.impressions))),
           Field("Clicks", Num(m.clicks),
                 trend_emoji(Num(m.clicks), Num(p.clicks), FALSE),
                 pct_change(Num(m.clicks), Num(p.clicks))),
           Field("CTR", m.ctr, trend_emoji(m.ctr, p.ctr, FALSE),
                 pct_change(m.ctr, p.ctr)),
           Field("CPC", m.cpc, trend_emoji(m.cpc, p.cpc, TRUE),
                 pct_change(m.cpc, p.cpc)),
           Field("Leads", Num(m.leads),
                 trend_emoji(Num(m.leads), Num(p.leads), FALSE),
                 pct_change(Num(m.leads), Num(p.leads))) >>

\* the ad line prints no percentage
ad_line_with_trends(ad, prev_ad) ==
    LET p == IF prev_ad = None
             THEN [spend |-> 0, impressions |-> 0, clicks |-> 0, ctr |-> Zero,
                   leads |-> 0]
             ELSE prev_ad[1]
    IN  << Field("Spend", Num(ad.spend),
                 trend_emoji(Num(ad.spend), Num(p.spend), FALSE), None),
           Field("Clicks", Num(ad.clicks),
                 trend_emoji(Num(ad.clicks), Num(p.clicks), FALSE), None),
           Field("CTR", ad.ctr, trend_emoji(ad.ctr, p.ctr, FALSE), None),
           Field("Leads", Num(ad.leads),
                 trend_emoji(Num(ad.leads), Num(p.leads), FALSE), None) >>

\* daily "Overall Totals": the six fields, and Cost Per Lead when there are leads
daily_totals_fields(totals, prev_totals) ==
    metrics_fields_with_trends(totals, Some(prev_totals))
    \o (IF totals.leads > 0
        THEN << Field("Cost Per Lead", totals.cpl,
                      trend_emoji(totals.cpl, prev_totals.cpl, TRUE),
                      pct_change(totals.cpl, prev_totals.cpl)) >>
        ELSE << >>)

\* prev_c.get(key, 0) where prev_c is prev_by_campaign.get(cid, {})
GetOr(prev, key, default) ==
    IF prev = None THEN default
    ELSE IF key \in DOMAIN prev[1] THEN prev[1][key] ELSE default

weekly_campaign_line(c, prev_c) ==
    LET ps == GetOr(prev_c, "spend", 0)
        pl == GetOr(prev_c, "leads", 0)
        pc == GetOr(prev_c, "clicks", 0)
        c_cpl == IF c.leads > 0 THEN Rat(c.spend, c.leads) ELSE Zero
        prev_cpl == GetOr(prev_c, "cpl", Zero)
    IN  << Field("Spend", Num(c.spend), trend(Num(c.spend), Num(ps), FALSE),
                 pct(Num(c.spend), Num(ps))),
           Field("Clicks", Num(c.clicks), trend(Num(c.clicks), Num(pc), FALSE),
                 pct(Num(c.clicks), Num(pc))),
           Field("Leads", Num(c.leads), trend(Num(c.leads), Num(pl), FALSE),
                 pct(Num(c.leads), Num(pl))),
           Field("CPL", c_cpl, trend(c_cpl, prev_cpl, TRUE),
                 pct(c_cpl, prev_cpl)) >>

weekly_adset_line(a, prev_a) ==
    LET pa_spend == GetOr(prev_a, "spend", 0)
        pa_clicks == GetOr(prev_a, "clicks", 0)
        pa_leads == GetOr(prev_a, "leads", 0)
        pa_cpl == GetOr(prev_a, "cpl", Zero)
    IN  << Field("Spend", Num(a.spend), trend(Num(a.spend), Num(pa_spend), FALSE),
                 pct(Num(a.spend), Num(pa_spend))),
           Field("Clicks", Num(a.clicks),
                 trend(Num(a.clicks), Num(pa_clicks), FALSE),
                 pct(Num(a.clicks), Num(pa_clicks))),
           Field("Leads", Num(a.leads), trend(Num(a.leads), Num(pa_leads), FALSE),
                 pct(Num(a.leads), Num(pa_leads))),
           Field("CPL", a.cpl, trend(a.cpl, pa_cpl, TRUE), pct(a.cpl, pa_cpl)) >>

\* t and pt are the running totals [spend, clicks, leads] of the two weeks
weekly_totals_line(t, pt) ==
    LET total_cpl == IF t.leads > 0 THEN Rat(t.spend, t.leads) ELSE Zero
        prev_total_cpl == IF pt.leads > 0 THEN Rat(pt.spend, pt.leads) ELSE Zero
    IN  << Field("Spend", Num(t.spend), trend(Num(t.spend), Num(pt.spend), FALSE),
                 pct(Num(t.spend), Num(pt.spend))),
           Field("Clicks", Num(t.clicks),
                 trend(Num(t.clicks), Num(pt.clicks), FALSE),
                 pct(Num(t.clicks), Num(pt.clicks))),
           Field("Leads", Num(t.leads), trend(Num(t.leads), Num(pt.leads), FALSE),
                 pct(Num(t.leads), Num(pt.leads))),
           Field("CPL", total_cpl, trend(total_cpl, prev_total_cpl, TRUE),
                 pct(total_cpl, prev_total_cpl)) >>

\* ------------------------------------------------- dicts and OrderedDicts
EmptyDict == [k \in {} |-> 0]
Put(d, k, v) == [x \in DOMAIN d \cup {k} |-> IF x = k THEN v ELSE d[x]]

Has(entries, id) == \E i \in 1..Len(entries) : entries[i].id = id
IndexOf(entries, id) == CHOOSE i \in 1..Len(entries) : entries[i].id = id

ZeroCounters == [spend |-> 0, impressions |-> 0, clicks |-> 0, leads |-> 0]

\* the four "+=" of a node or of a lookup entry
AddCounters(node, ad) ==
    [node EXCEPT !.spend = @ + ad.spend,
                 !.impressions = @ + ad.impressions,
                 !.clicks = @ + ad.clicks,
                 !.leads = @ + ad.leads]

RECURSIVE Concat(_)
Concat(seqs) == IF seqs = <<>> THEN <<>> ELSE Head(seqs) \o Concat(Tail(seqs))

\* ------------------------------------------------ daily: hierarchy, index
\* GroupAd with the campaign's "+=" inside "if cid not in campaigns"
GroupAdCampaignOnce(campaigns, ad) ==
    LET cid == ad.campaign_id
        asid == ad.adset_id
        c1 == IF ~Has(campaigns, cid)
              THEN Append(campaigns,
                          [id |-> cid, name |-> ad.campaign_name, adsets |-> <<>>,
                           spend |-> ad.spend, impressions |-> ad.impressions,
                           clicks |-> ad.clicks, leads |-> ad.leads])
              ELSE campaigns
        i == IndexOf(c1, cid)
        as1 == IF ~Has(c1[i].adsets, asid)
               THEN Append(c1[i].adsets,
                           [id |-> asid, name |-> ad.adset_name, ads |-> <<>>,
                            spend |-> 0, impressions |-> 0, clicks |-> 0,
                            leads |-> 0])
               ELSE c1[i].adsets
        j == IndexOf(as1, asid)
        as2 == [as1 EXCEPT ![j] = [AddCounters(@, ad) EXCEPT !.ads = Append(@, ad)]]
    IN  [c1 EXCEPT ![i].adsets = as2]

\* GroupAd with the names of a node assigned on every record, not on the first
GroupAdLastName(campaigns, ad) ==
    LET cid == ad.campaign_id
        asid == ad.adset_id
        c1 == IF ~Has(campaigns, cid)
              THEN Append(campaigns,
                          [id |-> cid, name |-> ad.campaign_name, adsets |-> <<>>,
                           spend |-> 0, impressions |-> 0, clicks |-> 0,
                           leads |-> 0])
              ELSE campaigns
        i == IndexOf(c1, cid)
        c2 == [c1 EXCEPT ![i] = [AddCounters(@, ad) EXCEPT !.name = ad.campaign_name]]
        as1 == IF ~Has(c2[i].adsets, asid)
               THEN Append(c2[i].adsets,
                           [id |-> asid, name |-> ad.adset_name, ads |-> <<>>,
                            spend |-> 0, impressions |-> 0, clicks |-> 0,
                            leads |-> 0])
               ELSE c2[i].adsets
        j == IndexOf(as1, asid)
        as2 == [as1 EXCEPT ![j] = [AddCounters(@, ad) EXCEPT !.ads = Append(@, ad),
                                                             !.name = ad.adset_name]]
    IN  [c2 EXCEPT ![i].adsets = as2]

\* GroupAd with the ad assigned as the list of the ad set, not appended to it
GroupAdKeepsLastAd(campaigns, ad) ==
    LET cid == ad.campaign_id
        asid == ad.adset_id
        c1 == IF ~Has(campaigns, cid)
              THEN Append(campaigns,
                          [id |-> cid, name |-> ad.campaign_name, adsets |-> <<>>,
                           spend |-> 0, impressions |-> 0, clicks |-> 0,
                           leads |-> 0])
              ELSE campaigns
        i == IndexOf(c1, cid)
        c2 == [c1 EXCEPT ![i] = AddCounters(@, ad)]
        as1 == IF ~Has(c2[i].adsets, asid)
               THEN Append(c2[i].adsets,
                           [id |-> asid, name |-> ad.adset_name, ads |-> <<>>,
                            spend |-> 0, impressions |-> 0, clicks |-> 0,
                            leads |-> 0])
               ELSE c2[i].adsets
        j == IndexOf(as1, asid)
        as2 == [as1 EXCEPT ![j] = [AddCounters(@, ad) EXCEPT !.ads = << ad >>]]
    IN  [c2 EXCEPT ![i].adsets = as2]

\* one iteration of the loop of group_by_campaign_adset
GroupAd(campaigns, ad) ==
    LET cid == ad.campaign_id
        asid == ad.adset_id
        c1 == IF ~Has(campaigns, cid)
              THEN Append(campaigns,
                          [id |-> cid, name |-> ad.campaign_name, adsets |-> <<>>,
                           spend |-> 0, impressions |-> 0, clicks |-> 0,
                           leads |-> 0])
              ELSE campaigns
        i == IndexOf(c1, cid)
        c2 == [c1 EXCEPT ![i] = AddCounters(@, ad)]
        as1 == IF ~Has(c2[i].adsets, asid)
               THEN Append(c2[i].adsets,
                           [id |-> asid, name |-> ad.adset_name, ads |-> <<>>,
                            spend |-> 0, impressions |-> 0, clicks |-> 0,
                            leads |-> 0])
               ELSE c2[i].adsets
        j == IndexOf(as1, asid)
        as2 == [as1 EXCEPT ![j] = [AddCounters(@, ad) EXCEPT !.ads = Append(@, ad)]]
    IN  [c2 EXCEPT ![i].adsets = as2]

RECURSIVE GroupAdsFrom(_, _)
GroupAdsFrom(campaigns, ads) ==
    IF ads = <<>> THEN campaigns
    ELSE GroupAdsFrom(GroupAd(campaigns, Head(ads)), Tail(ads))

group_by_campaign_adset(ads) == GroupAdsFrom(<<>>, ads)

\* LookupAd with the counters of a campaign entry assigned, not added to
LookupAdAssignsCampaign(lk, ad) ==
    LET asid == ad.adset_id
        cid == ad.campaign_id
        s0 == IF asid \notin DOMAIN lk.by_adset
              THEN Put(lk.by_adset, asid, ZeroCounters) ELSE lk.by_adset
    IN  [by_ad |-> Put(lk.by_ad, ad.ad_id, ad),
         by_adset |-> [s0 EXCEPT ![asid] = AddCounters(@, ad)],
         by_campaign |-> Put(lk.by_campaign, cid, AddCounters(ZeroCounters, ad))]

\* one iteration of the loop of build_prev_lookup; lk is [by_ad, by_adset,
\* by_campaign]
LookupAd(lk, ad) ==
    LET asid == ad.adset_id
        cid == ad.campaign_id
        s0 == IF asid \notin DOMAIN lk.by_adset
              THEN Put(lk.by_adset, asid, ZeroCounters) ELSE lk.by_adset
        c0 == IF cid \notin DOMAIN lk.by_campaign
              THEN Put(lk.by_campaign, cid, ZeroCounters) ELSE lk.by_campaign
    IN  [by_ad |-> Put(lk.by_ad, ad.ad_id, ad),
         by_adset |-> [s0 EXCEPT ![asid] = AddCounters(@, ad)],
         by_campaign |-> [c0 EXCEPT ![cid] = AddCounters(@, ad)]]

RECURSIVE LookupAdsFrom(_, _)
LookupAdsFrom(lk, ads) ==
    IF ads = <<>> THEN lk ELSE LookupAdsFrom(LookupAd(lk, Head(ads)), Tail(ads))

build_prev_lookup(prev_ads) ==
    LookupAdsFrom([by_ad |-> EmptyDict, by_adset |-> EmptyDict,
                   by_campaign |-> EmptyDict], prev_ads)

\* the flat sum of the raw counters of a list of parsed records, derived
RECURSIVE SumCounters(_, _)
SumCounters(acc, ads) ==
    IF ads = <<>> THEN acc ELSE SumCounters(AddCounters(acc, Head(ads)), Tail(ads))

Totals(ads) == calc_derived(SumCounters(ZeroCounters, ads))

\* ----------------------------------------------- weekly: hierarchy, index
\* one iteration of the loop of group_by_campaign
GroupAdset(campaigns, a) ==
    LET cid == a.campaign_id
        c1 == IF ~Has(campaigns, cid)
              THEN Append(campaigns,
                          [id |-> cid, name |-> a.campaign_name, adsets |-> <<>>,
                           spend |-> 0, impressions |-> 0, clicks |-> 0,
                           leads |-> 0])
              ELSE campaigns
        i == IndexOf(c1, cid)
    IN  [c1 EXCEPT ![i] = AddCounters([@ EXCEPT !.adsets = Append(@, a)], a)]

RECURSIVE GroupAdsetsFrom(_, _)
GroupAdsetsFrom(campaigns, adsets) ==
    IF adsets = <<>> THEN campaigns
    ELSE GroupAdsetsFrom(GroupAdset(campaigns, Head(adsets)), Tail(adsets))

group_by_campaign(adsets) == GroupAdsetsFrom(<<>>, adsets)

\* one iteration of the first loop of build_prev_lookups; lk is [by_campaign,
\* by_adset]
LookupAdset(lk, a) ==
    LET cid == a.campaign_id
        c0 == IF cid \notin DOMAIN lk.by_campaign
              THEN Put(lk.by_campaign, cid, ZeroCounters) ELSE lk.by_campaign
    IN  [by_adset |-> Put(lk.by_adset, a.adset_id, a),
         by_campaign |-> [c0 EXCEPT ![cid] = AddCounters(@, a)]]

\* the second loop of build_prev_lookups: every campaign entry gets its cpl
AddCpl(by_campaign) ==
    [cid \in DOMAIN by_campaign |->
        LET v == by_campaign[cid]
        IN  [k \in DOMAIN v \cup {"cpl"} |->
                IF k = "cpl"
                THEN (IF v.leads > 0 THEN Rat(v.spend, v.leads) ELSE Zero)
                ELSE v[k]]]

RECURSIVE LookupAdsetsFrom(_, _)
LookupAdsetsFrom(lk, adsets) ==
    IF adsets = <<>> THEN lk
    ELSE LookupAdsetsFrom(LookupAdset(lk, Head(adsets)), Tail(adsets))

build_prev_lookups(prev_adsets) ==
    LET lk == LookupAdsetsFrom([by_campaign |-> EmptyDict, by_adset |-> EmptyDict],
                               prev_adsets)
    IN  [by_campaign |-> AddCpl(lk.by_campaign), by_adset |-> lk.by_adset]

\* --------------------------------------------------------------- messages
\* A message is its list of blocks.  A node's title section and its fields
\* section are one block here: kind, the node's id and name, and its fields.
Block(kind, id, name, fields) ==
    [kind |-> kind, id |-> id, name |-> name, fields |-> fields]

Plain(kind) == Block(kind, "", "", <<>>)

build_no_ads_message ==
    << Plain("header"), Plain("divider"), Plain("no_ads") >>

daily_build_slack_message(campaigns, totals, prev_by_ad, prev_by_adset, prev_by_campaign, prev_totals, ad_count) ==
    LET AdBlock(ad) ==
            Block("ad", ad.ad_id, ad.ad_name,
                  ad_line_with_trends(ad, Lookup(prev_by_ad, ad.ad_id)))
        AdsetBlocks(adset) ==
            << Block("adset", adset.id, adset.name,
                     metrics_fields_with_trends(calc_derived(adset),
                                                Lookup(prev_by_adset, adset.id))) >>
            \o [k \in 1..Len(adset.ads) |-> AdBlock(adset.ads[k])]
        CampaignBlocks(campaign) ==
            << Block("campaign", campaign.id, campaign.name,
                     metrics_fields_with_trends(calc_derived(campaign),
                                                Lookup(prev_by_campaign, campaign.id))) >>
            \o Concat([k \in 1..Len(campaign.adsets) |->
                          AdsetBlocks(campaign.adsets[k])])
            \o << Plain("divider") >>
    IN  << Plain("header"),
           Block("context", "", "", << Len(campaigns), ad_count >>),
           Plain("divider") >>
        \o Concat([k \in 1..Len(campaigns) |-> CampaignBlocks(campaigns[k])])
        \o << Block("totals", "", "", daily_totals_fields(totals, prev_totals)) >>
        \o (IF totals.spend = 0
            THEN << Plain("divider"), Plain("no_spend") >> ELSE << >>)

build_no_data_message ==
    << Plain("header"), Plain("divider"), Plain("no_data") >>

\* sorted(adsets, key=spend, reverse=True): stable, so equal spends keep their order
RECURSIVE SortBySpendDesc(_)
SortBySpendDesc(adsets) ==
    IF adsets = <<>> THEN <<>>
    ELSE LET n == Len(adsets)
             x == adsets[n]
             sorted == SortBySpendDesc(SubSeq(adsets, 1, n - 1))
             k == Cardinality({i \in 1..Len(sorted) : sorted[i].spend >= x.spend})
         IN  SubSeq(sorted, 1, k) \o << x >> \o SubSeq(sorted, k + 1, Len(sorted))

\* the running totals of build_slack_message after the campaigns given
RECURSIVE WeeklyRunningTotals(_, _)
WeeklyRunningTotals(campaigns, prev_by_campaign) ==
    IF campaigns = <<>>
    THEN [t |-> [spend |-> 0, leads |-> 0, clicks |-> 0],
          pt |-> [spend |-> 0, leads |-> 0, clicks |-> 0]]
    ELSE LET n == Len(campaigns)
             c == campaigns[n]
             r == WeeklyRunningTotals(SubSeq(campaigns, 1, n - 1), prev_by_campaign)
             prev_c == Lookup(prev_by_campaign, c.id)
         IN  [t |-> [spend |-> r.t.spend + c.spend,
                     leads |-> r.t.leads + c.leads,
                     clicks |-> r.t.clicks + c.clicks],
              pt |-> [spend |-> r.pt.spend + GetOr(prev_c, "spend", 0),
                      leads |-> r.pt.leads + GetOr(prev_c, "leads", 0),
                      clicks |-> r.pt.clicks + GetOr(prev_c, "clicks", 0)]]

weekly_build_slack_message(campaigns, prev_by_campaign, prev_by_adset) ==
    LET AdsetBlock(a) ==
            Block("adset", a.adset_id, a.adset_name,
                  weekly_adset_line(a, Lookup(prev_by_adset, a.adset_id)))
        CampaignBlocks(c) ==
            LET shown == SortBySpendDesc(c.adsets)
            IN  << Block("campaign", c.id, c.name,
                         weekly_campaign_line(c, Lookup(prev_by_campaign, c.id))) >>
                \o [k \in 1..Len(shown) |-> AdsetBlock(shown[k])]
                \o << Plain("divider") >>
        r == WeeklyRunningTotals(campaigns, prev_by_campaign)
    IN  << Plain("header"), Plain("divider") >>
        \o Concat([k \in 1..Len(campaigns) |-> CampaignBlocks(campaigns[k])])
        \o << Block("totals", "", "", weekly_totals_line(r.t, r.pt)) >>

\* ----------------------------------------------------------------- inputs
MaxRecords == 3

CampaignIds == {"c1", "c2"}
AdsetIds == {"s1", "s2"}
AdIds == {"a1", "a2"}

\* what an ad delivered in the period: nothing, impressions without clicks,
\* clicks with a lead
Deliveries ==
    { [spend |-> 0, impressions |-> 0, clicks |-> 0, actions |-> <<>>],
      [spend |-> 3, impressions |-> 2, clicks |-> 0, actions |-> <<>>],
      [spend |-> 5, impressions |-> 4, clicks |-> 2,
       actions |-> << [action_type |-> "lead", value |-> 1] >>] }

DailyRows ==
    { [ad_id |-> a, ad_name |-> "Ad", campaign_name |-> "Campaign",
       campaign_id |-> c, adset_name |-> "Ad Set", adset_id |-> s,
       spend |-> d.spend, impressions |-> d.impressions, clicks |-> d.clicks,
       actions |-> d.actions] :
      a \in AdIds \cup {Missing}, c \in CampaignIds, s \in AdsetIds,
      d \in Deliveries }

WeeklyRows ==
    { [campaign_name |-> "Campaign", campaign_id |-> c, adset_name |-> "Ad Set",
       adset_id |-> s, spend |-> d.spend, impressions |-> d.impressions,
       clicks |-> d.clicks, actions |-> d.actions] :
      c \in CampaignIds, s \in AdsetIds \cup {Missing}, d \in Deliveries }

\* ------------------------------------------------------------------ state
VARIABLES
    script,             \* which script runs: "daily" or "weekly"
    pc,                 \* the position in main
    idx,                \* the position of the running for loop
    message,            \* the message handed to send_to_slack, None before
    raw_yesterday, raw_day_before, ads, campaigns, prev_ads,
    prev_by_ad, prev_by_adset, prev_by_campaign, totals, prev_totals,
    raw_last, raw_prev, adsets, w_campaigns, prev_adsets,
    w_prev_by_campaign, w_prev_by_adset,
    ev_fn,              \* the function applied on its own, "" before
    ev_in,              \* its input
    ev_out              \* its result, None before

evalVars == << ev_fn, ev_in, ev_out >>
dailyVars ==
    << raw_yesterday, raw_day_before, ads, campaigns, prev_ads, prev_by_ad,
       prev_by_adset, prev_by_campaign, totals, prev_totals >>
weeklyVars ==
    << raw_last, raw_prev, adsets, w_campaigns, prev_adsets, w_prev_by_campaign,
       w_prev_by_adset >>
vars == << script, pc, idx, message, dailyVars, weeklyVars, evalVars >>

Unset ==
    /\ pc = "fetched"
    /\ idx = 0
    /\ message = None
    /\ ads = <<>> /\ campaigns = <<>> /\ prev_ads = <<>>
    /\ prev_by_ad = EmptyDict /\ prev_by_adset = EmptyDict
    /\ prev_by_campaign = EmptyDict
    /\ totals = None /\ prev_totals = None
    /\ adsets = <<>> /\ w_campaigns = <<>> /\ prev_adsets = <<>>
    /\ w_prev_by_campaign = EmptyDict /\ w_prev_by_adset = EmptyDict

NoEval == ev_fn = "" /\ ev_in = None /\ ev_out = None

\* the state of main after the two fetches returned rows of the sets given
InitWith(dailyRows, weeklyRows) ==
    /\ Unset /\ NoEval
    /\ \E nc \in 0..MaxRecords : \E np \in 0..(MaxRecords - nc) :
        \/ /\ script = "daily"
           /\ raw_yesterday \in [1..nc -> dailyRows]
           /\ raw_day_before \in [1..np -> dailyRows]
           /\ raw_last = <<>> /\ raw_prev = <<>>
        \/ /\ script = "weekly"
           /\ raw_last \in [1..nc -> weeklyRows]
           /\ raw_prev \in [1..np -> weeklyRows]
           /\ raw_yesterday = <<>> /\ raw_day_before = <<>>

Init == InitWith(DailyRows, WeeklyRows)

\* rows that differ in what the grouping reads only: the campaign, the ad set and
\* the delivery
InitGrouping ==
    InitWith({ r \in DailyRows : r.ad_id = "a1" },
             { r \in WeeklyRows : r.adset_id # Missing })

\* rows of the grouping whose names changed between records: the rows of the second
\* delivery carry the names a campaign and an ad set got after a rename
Renamed(r) ==
    IF r.spend = 3
    THEN [r EXCEPT !.campaign_name = "Campaign (renamed)",
                   !.adset_name = "Ad Set (renamed)"]
    ELSE r

InitOrder ==
    InitWith({ Renamed(r) : r \in { x \in DailyRows : x.ad_id = "a1" } },
             { Renamed(r) : r \in { x \in WeeklyRows : x.adset_id # Missing } })

\* no two rows of a period are of the same ad (weekly: ad set)
Distinct(rows, key) ==
    \A k, l \in 1..Len(rows) : rows[k][key] = rows[l][key] => k = l

\* the rows of a prior period, one per ad (weekly: per ad set), against a current
\* period of one ad (ad set) of one campaign
InitIndex ==
    /\ Unset /\ NoEval
    /\ \E nc \in 0..MaxRecords : \E np \in 0..(MaxRecords - nc) :
        \/ /\ script = "daily"
           /\ raw_yesterday \in
                 [1..nc -> { r \in DailyRows : /\ r.ad_id = "a1"
                                               /\ r.campaign_id = "c1"
                                               /\ r.adset_id = "s1" }]
           /\ raw_day_before \in
                 { rows \in [1..np -> DailyRows] : Distinct(rows, "ad_id") }
           /\ raw_last = <<>> /\ raw_prev = <<>>
        \/ /\ script = "weekly"
           /\ raw_last \in
                 [1..nc -> { r \in WeeklyRows : /\ r.adset_id = "s1"
                                                /\ r.campaign_id = "c1" }]
           /\ raw_prev \in
                 { rows \in [1..np -> WeeklyRows] : Distinct(rows, "adset_id") }
           /\ raw_yesterday = <<>> /\ raw_day_before = <<>>

\* ------------------------------------------------------------ daily main
\* main without the "if not raw_yesterday" return: the report of no campaigns
DailyNoAdsEmptyReport ==
    /\ script = "daily" /\ pc = "fetched"
    /\ raw_yesterday = <<>>
    /\ message' = Some(daily_build_slack_message(<<>>, Totals(<<>>), EmptyDict,
                           EmptyDict, EmptyDict, Totals(<<>>), 0))
    /\ pc' = "done"
    /\ UNCHANGED << evalVars, script, idx, dailyVars, weeklyVars >>

DailyNoAds ==
    /\ script = "daily" /\ pc = "fetched"
    /\ raw_yesterday = <<>>
    /\ message' = Some(build_no_ads_message)
    /\ pc' = "done"
    /\ UNCHANGED << evalVars, script, idx, dailyVars, weeklyVars >>

DailyParse ==
    /\ script = "daily" /\ pc = "fetched"
    /\ raw_yesterday # <<>>
    /\ ads' = [k \in 1..Len(raw_yesterday) |-> parse_ad_metrics(raw_yesterday[k])]
    /\ idx' = 1
    /\ pc' = "group"
    /\ UNCHANGED << evalVars, script, message, raw_yesterday, raw_day_before, campaigns,
                    prev_ads, prev_by_ad, prev_by_adset, prev_by_campaign, totals,
                    prev_totals, weeklyVars >>

DailyGroup ==
    /\ script = "daily" /\ pc = "group"
    /\ campaigns' = GroupAd(campaigns, ads[idx])
    /\ idx' = idx + 1
    /\ pc' = IF idx = Len(ads) THEN "parse_prev" ELSE "group"
    /\ UNCHANGED << evalVars, script, message, raw_yesterday, raw_day_before, ads, prev_ads,
                    prev_by_ad, prev_by_adset, prev_by_campaign, totals,
                    prev_totals, weeklyVars >>

DailyParsePrev ==
    /\ script = "daily" /\ pc = "parse_prev"
    /\ prev_ads' = [k \in 1..Len(raw_day_before) |->
                       parse_ad_metrics(raw_day_before[k])]
    /\ idx' = 1
    /\ pc' = IF raw_day_before = <<>> THEN "totals" ELSE "lookup"
    /\ UNCHANGED << evalVars, script, message, raw_yesterday, raw_day_before, ads, campaigns,
                    prev_by_ad, prev_by_adset, prev_by_campaign, totals,
                    prev_totals, weeklyVars >>

DailyLookup ==
    /\ script = "daily" /\ pc = "lookup"
    /\ LET lk == LookupAd([by_ad |-> prev_by_ad, by_adset |-> prev_by_adset,
                           by_campaign |-> prev_by_campaign], prev_ads[idx])
       IN  /\ prev_by_ad' = lk.by_ad
           /\ prev_by_adset' = lk.by_adset
           /\ prev_by_campaign' = lk.by_campaign
    /\ idx' = idx + 1
    /\ pc' = IF idx = Len(prev_ads) THEN "totals" ELSE "lookup"
    /\ UNCHANGED << evalVars, script, message, raw_yesterday, raw_day_before, ads, campaigns,
                    prev_ads, totals, prev_totals, weeklyVars >>

DailyTotals ==
    /\ script = "daily" /\ pc = "totals"
    /\ totals' = Some(Totals(ads))
    /\ prev_totals' = Some(Totals(prev_ads))
    /\ pc' = "build"
    /\ UNCHANGED << evalVars, script, idx, message, raw_yesterday, raw_day_before, ads,
                    campaigns, prev_ads, prev_by_ad, prev_by_adset,
                    prev_by_campaign, weeklyVars >>

DailyBuild ==
    /\ script = "daily" /\ pc = "build"
    /\ message' = Some(daily_build_slack_message(campaigns, totals[1], prev_by_ad,
                           prev_by_adset, prev_by_campaign, prev_totals[1],
                           Len(ads)))
    /\ pc' = "done"
    /\ UNCHANGED << evalVars, script, idx, dailyVars, weeklyVars >>

\* ----------------------------------------------------------- weekly main
WeeklyNoData ==
    /\ script = "weekly" /\ pc = "fetched"
    /\ raw_last = <<>>
    /\ message' = Some(build_no_data_message)
    /\ pc' = "done"
    /\ UNCHANGED << evalVars, script, idx, dailyVars, weeklyVars >>

WeeklyParse ==
    /\ script = "weekly" /\ pc = "fetched"
    /\ raw_last # <<>>
    /\ adsets' = [k \in 1..Len(raw_last) |-> parse_adset(raw_last[k])]
    /\ idx' = 1
    /\ pc' = "group"
    /\ UNCHANGED << evalVars, script, message, dailyVars, raw_last, raw_prev, w_campaigns,
                    prev_adsets, w_prev_by_campaign, w_prev_by_adset >>

WeeklyGroup ==
    /\ script = "weekly" /\ pc = "group"
    /\ w_campaigns' = GroupAdset(w_campaigns, adsets[idx])
    /\ idx' = idx + 1
    /\ pc' = IF idx = Len(adsets) THEN "parse_prev" ELSE "group"
    /\ UNCHANGED << evalVars, script, message, dailyVars, raw_last, raw_prev, adsets,
                    prev_adsets, w_prev_by_campaign, w_prev_by_adset >>

WeeklyParsePrev ==
    /\ script = "weekly" /\ pc = "parse_prev"
    /\ prev_adsets' = [k \in 1..Len(raw_prev) |-> parse_adset(raw_prev[k])]
    /\ idx' = 1
    /\ pc' = IF raw_prev = <<>> THEN "build" ELSE "lookup"
    /\ UNCHANGED << evalVars, script, message, dailyVars, raw_last, raw_prev, adsets,
                    w_campaigns, w_prev_by_campaign, w_prev_by_adset >>

WeeklyLookup ==
    /\ script = "weekly" /\ pc = "lookup"
    /\ LET lk == LookupAdset([by_campaign |-> w_prev_by_campaign,
                              by_adset |-> w_prev_by_adset], prev_adsets[idx])
       IN  /\ w_prev_by_adset' = lk.by_adset
           /\ w_prev_by_campaign' = lk.by_campaign
    /\ idx' = idx + 1
    /\ pc' = IF idx = Len(prev_adsets) THEN "derive" ELSE "lookup"
    /\ UNCHANGED << evalVars, script, message, dailyVars, raw_last, raw_prev, adsets,
                    w_campaigns, prev_adsets >>

WeeklyLookupDerive ==
    /\ script = "weekly" /\ pc = "derive"
    /\ w_prev_by_campaign' = AddCpl(w_prev_by_campaign)
    /\ pc' = "build"
    /\ UNCHANGED << evalVars, script, idx, message, dailyVars, raw_last, raw_prev, adsets,
                    w_campaigns, prev_adsets, w_prev_by_adset >>

WeeklyBuild ==
    /\ script = "weekly" /\ pc = "build"
    /\ message' = Some(weekly_build_slack_message(w_campaigns, w_prev_by_campaign,
                                                  w_prev_by_adset))
    /\ pc' = "done"
    /\ UNCHANGED << evalVars, script, idx, dailyVars, weeklyVars >>

Next ==
    \/ DailyNoAds \/ DailyParse \/ DailyGroup \/ DailyParsePrev \/ DailyLookup
    \/ DailyTotals \/ DailyBuild
    \/ WeeklyNoData \/ WeeklyParse \/ WeeklyGroup \/ WeeklyParsePrev
    \/ WeeklyLookup \/ WeeklyLookupDerive \/ WeeklyBuild

Spec == Init /\ [][Next]_vars

SpecGrouping == InitGrouping /\ [][Next]_vars

SpecOrder == InitOrder /\ [][Next]_vars

SpecIndex == InitIndex /\ [][Next]_vars

\* ------------------------------------- the functions applied on their own
ActionTypes ==
    {"lead", "offsite_conversion.fb_pixel_lead", "complete_registration",
     "link_click"}

ActionEntries == [action_type : ActionTypes, value : 0..MaxValue]

ActionLists == UNION { [1..n -> ActionEntries] : n \in 0..MaxActions }

RawCounters ==
    [spend : 0..MaxSpend, impressions : 0..MaxImpressions, clicks : 0..MaxClicks,
     leads : 0..MaxValue]

\* a response row as the daily script reads it, with the fields of parse_adset in it
RowOf(spend, impressions, clicks, actions) ==
    [ad_id |-> "a1", ad_name |-> "Ad", campaign_name |-> "Campaign",
     campaign_id |-> "c1", adset_name |-> "Ad Set", adset_id |-> "s1",
     spend |-> spend, impressions |-> impressions, clicks |-> clicks,
     actions |-> actions]

NoMain ==
    /\ script = "none"
    /\ Unset
    /\ raw_yesterday = <<>> /\ raw_day_before = <<>>
    /\ raw_last = <<>> /\ raw_prev = <<>>

mainVars == << script, pc, idx, message, dailyVars, weeklyVars >>

InitParse ==
    /\ NoMain
    /\ ev_fn = "" /\ ev_out = None
    /\ \E sp \in 0..MaxSpend, im \in 0..MaxImpressions, cl \in 0..MaxClicks,
          ac \in ActionLists :
          ev_in = RowOf(sp, im, cl, ac)

Apply(fn, out) ==
    /\ ev_fn' = fn
    /\ ev_out' = Some(out)
    /\ UNCHANGED << ev_in, mainVars >>

EvalParseAd ==
    /\ ev_fn = ""
    /\ Apply("parse_ad_metrics", parse_ad_metrics(ev_in))

EvalParseAdset ==
    /\ ev_fn = ""
    /\ Apply("parse_adset", parse_adset(ev_in))

\* calc_derived of the raw counters of the record
EvalDerive ==
    /\ ev_fn = ""
    /\ Apply("calc_derived",
             calc_derived([spend |-> ev_in.spend, impressions |-> ev_in.impressions,
                           clicks |-> ev_in.clicks,
                           leads |-> weekly_extract_leads(ev_in.actions)]))

NextParse == EvalParseAd \/ EvalParseAdset \/ EvalDerive

SpecParse == InitParse /\ [][NextParse]_vars

\* the current node and what the lookup holds for it (raw counters), if anything
InitTrend ==
    /\ NoMain
    /\ ev_fn = "" /\ ev_out = None
    /\ \E m \in RawCounters :
         \/ ev_in = [m |-> m, prev |-> None]
         \/ \E p \in RawCounters : ev_in = [m |-> m, prev |-> Some(p)]

PrevDerived == IF ev_in.prev = None THEN None ELSE Some(calc_derived(ev_in.prev[1]))

\* a campaign or ad-set node against its lookup entry (raw counters)
EvalMetricsFields ==
    /\ ev_fn = ""
    /\ Apply("metrics_fields_with_trends",
             metrics_fields_with_trends(calc_derived(ev_in.m), ev_in.prev))

\* an ad against the parsed ad of the day before
EvalAdLine ==
    /\ ev_fn = ""
    /\ Apply("ad_line_with_trends",
             ad_line_with_trends(calc_derived(ev_in.m), PrevDerived))

EvalDailyTotals ==
    /\ ev_fn = ""
    /\ ev_in.prev # None
    /\ Apply("daily_totals_fields",
             daily_totals_fields(calc_derived(ev_in.m), calc_derived(ev_in.prev[1])))

\* a campaign against its lookup entry (raw counters and cpl)
EvalWeeklyCampaign ==
    /\ ev_fn = ""
    /\ Apply("weekly_campaign_line",
             weekly_campaign_line(ev_in.m,
                 IF ev_in.prev = None THEN None
                 ELSE Some(AddCpl(Put(EmptyDict, "c1", ev_in.prev[1]))["c1"])))

\* an ad set against the parsed ad set of the week before
EvalWeeklyAdset ==
    /\ ev_fn = ""
    /\ Apply("weekly_adset_line",
             weekly_adset_line(calc_derived(ev_in.m), PrevDerived))

EvalWeeklyTotals ==
    /\ ev_fn = ""
    /\ ev_in.prev # None
    /\ Apply("weekly_totals_line", weekly_totals_line(ev_in.m, ev_in.prev[1]))

NextTrend ==
    \/ EvalMetricsFields \/ EvalAdLine \/ EvalDailyTotals
    \/ EvalWeeklyCampaign \/ EvalWeeklyAdset \/ EvalWeeklyTotals

SpecTrend == InitTrend /\ [][NextTrend]_vars

\* a current and a previous amount handed to the percentage functions
MaxAmount == 8

InitPct ==
    /\ NoMain
    /\ ev_fn = "" /\ ev_out = None
    /\ \E c \in 0..MaxAmount, p \in 0..MaxAmount :
         ev_in = [current |-> c, previous |-> p]

EvalPctChange ==
    /\ ev_fn = ""
    /\ Apply("pct_change", pct_change(Num(ev_in.current), Num(ev_in.previous)))

EvalPct ==
    /\ ev_fn = ""
    /\ Apply("pct", pct(Num(ev_in.current), Num(ev_in.previous)))

NextPct == EvalPctChange \/ EvalPct

SpecPct == InitPct /\ [][NextPct]_vars

\* ================================================================= claims
RawFields == {"spend", "impressions", "clicks", "leads"}

Raw(node) == [f \in RawFields |-> node[f]]

RECURSIVE SumField(_, _)
SumField(nodes, f) ==
    IF nodes = <<>> THEN 0 ELSE Head(nodes)[f] + SumField(Tail(nodes), f)

SumsChildren(node, children) ==
    \A f \in RawFields : node[f] = SumField(children, f)

Blocks == IF message = None THEN <<>> ELSE message[1]

BlocksOf(kind) == { Blocks[k] : k \in { i \in 1..Len(Blocks) : Blocks[i].kind = kind } }

Direction(emoji) ==
    CASE emoji = "dash" -> "Unchanged"
      [] emoji = "new" -> "New"
      [] emoji \in {"green_up", "green_down"} -> "Improving"
      [] emoji \in {"red_up", "red_down"} -> "Declining"

\* the value of the metric a field is labelled with, in a bundle of raw counters
MetricOf(raw, label) ==
    CASE label = "Spend" -> Num(raw.spend)
      [] label = "Impressions" -> Num(raw.impressions)
      [] label = "Clicks" -> Num(raw.clicks)
      [] label = "Leads" -> Num(raw.leads)
      [] label = "CTR" ->
            IF raw.impressions = 0 THEN Zero
            ELSE Rat(raw.clicks * 100, raw.impressions)
      [] label = "CPC" -> IF raw.clicks = 0 THEN Zero ELSE Rat(raw.spend, raw.clicks)
      [] label \in {"CPL", "Cost Per Lead"} ->
            IF raw.leads = 0 THEN Zero ELSE Rat(raw.spend, raw.leads)

CostLabels == {"CPC", "CPL", "Cost Per Lead"}

EvalFields == IF ev_out = None THEN {} ELSE { ev_out[1][k] : k \in 1..Len(ev_out[1]) }

WellFormed ==
    /\ \A k \in 1..Len(raw_yesterday) : raw_yesterday[k].ad_id # Missing
    /\ \A k \in 1..Len(raw_day_before) : raw_day_before[k].ad_id # Missing
    /\ \A k \in 1..Len(raw_last) : raw_last[k].adset_id # Missing
    /\ \A k \in 1..Len(raw_prev) : raw_prev[k].adset_id # Missing

AllNew(block) ==
    \A k \in 1..Len(block.fields) :
        block.fields[k].emoji = "new" /\ block.fields[k].pct = None

\* C2: in the report sent, every campaign, ad-set and ad node whose id the lookup
\* of the prior period lacks has the direction New on every metric and no
\* percentage, whatever its current values (stated for records that all carry
\* their identity field).
C2_AbsentPriorIsNew ==
    (pc = "done" /\ WellFormed) =>
        /\ script = "daily" =>
             /\ \A b \in BlocksOf("campaign") :
                  b.id \notin DOMAIN prev_by_campaign => AllNew(b)
             /\ \A b \in BlocksOf("adset") :
                  b.id \notin DOMAIN prev_by_adset => AllNew(b)
             /\ \A b \in BlocksOf("ad") :
                  b.id \notin DOMAIN prev_by_ad => AllNew(b)
        /\ script = "weekly" =>
             /\ \A b \in BlocksOf("campaign") :
                  b.id \notin DOMAIN w_prev_by_campaign => AllNew(b)
             /\ \A b \in BlocksOf("adset") :
                  b.id \notin DOMAIN w_prev_by_adset => AllNew(b)

\* C3: with a prior entry whose value of a metric is 0, the direction is Unchanged
\* exactly when the current value is 0 and New when it is not, and there is no
\* percentage; for every metric of every kind of node.
C3_ZeroBaseline ==
    (ev_fn # "" /\ ev_in.prev # None) =>
        \A f \in EvalFields :
            LET c == MetricOf(ev_in.m, f.label)
                p == MetricOf(ev_in.prev[1], f.label)
            IN  IsZero(p) =>
                    /\ Direction(f.emoji) = "Unchanged" <=> IsZero(c)
                    /\ ~IsZero(c) => Direction(f.emoji) = "New"
                    /\ f.pct = None

\* a cost per click appearing from a prior entry without clicks
C3_Witness ==
    /\ ev_fn = "metrics_fields_with_trends" /\ ev_in.prev # None
    /\ \E f \in EvalFields :
        /\ f.label = "CPC"
        /\ IsZero(MetricOf(ev_in.prev[1], "CPC"))
        /\ ~IsZero(MetricOf(ev_in.m, "CPC"))
        /\ f.emoji = "new" /\ f.pct = None

\* C4: with a prior value p # 0, c = p is Unchanged for every metric; for the cost
\* metrics (cpc, cpl) c < p is Improving and c > p Declining; for every other
\* metric c > p is Improving and c < p Declining; in every kind of node.
C4_LowerIsBetterOnlyForCosts ==
    (ev_fn # "" /\ ev_in.prev # None) =>
        \A f \in EvalFields :
            LET c == MetricOf(ev_in.m, f.label)
                p == MetricOf(ev_in.prev[1], f.label)
            IN  ~IsZero(p) =>
                    Direction(f.emoji) =
                        IF RatEq(c, p) THEN "Unchanged"
                        ELSE IF f.label \in CostLabels
                             THEN (IF RatLt(c, p) THEN "Improving" ELSE "Declining")
                             ELSE (IF RatLt(p, c) THEN "Improving" ELSE "Declining")

\* a cost per click that went down
C4_Witness ==
    /\ ev_fn = "metrics_fields_with_trends" /\ ev_in.prev # None
    /\ \E f \in EvalFields :
        /\ f.label = "CPC"
        /\ ~IsZero(MetricOf(ev_in.m, "CPC"))
        /\ RatLt(MetricOf(ev_in.m, "CPC"), MetricOf(ev_in.prev[1], "CPC"))
        /\ f.emoji = "green_down"

\* C5: the ratios of a derived bundle and of a parsed record are ctr =
\* clicks / impressions * 100, cpc = spend / clicks, cpl = spend / leads, each
\* exactly 0 when its denominator is 0; and deriving the raw counters of a parsed
\* record yields the ratios stored on it.
C5_DerivationFromRaw ==
    ev_fn # "" =>
        LET o == ev_out[1]
            d == calc_derived(Raw(o))
        IN  /\ IF o.impressions = 0 THEN o.ctr = Zero
               ELSE RatEq(o.ctr, Rat(o.clicks * 100, o.impressions))
            /\ IF o.clicks = 0 THEN o.cpc = Zero
               ELSE RatEq(o.cpc, Rat(o.spend, o.clicks))
            /\ IF o.leads = 0 THEN o.cpl = Zero
               ELSE RatEq(o.cpl, Rat(o.spend, o.leads))
            /\ d.ctr = o.ctr /\ d.cpc = o.cpc /\ d.cpl = o.cpl
            /\ Raw(d) = Raw(o)

\* a parsed ad with spend and impressions, without clicks and leads
C5_Witness ==
    /\ ev_fn = "parse_ad_metrics"
    /\ ev_out[1].spend > 0 /\ ev_out[1].impressions > 0
    /\ ev_out[1].clicks = 0 /\ ev_out[1].leads = 0
    /\ ev_out[1].cpc = Zero /\ ev_out[1].cpl = Zero

Current == IF script = "daily" THEN raw_yesterday ELSE raw_last
Prior == IF script = "daily" THEN raw_day_before ELSE raw_prev

NoActivity == BlocksOf("no_ads") \cup BlocksOf("no_data") # {}

\* C6: the run ends with the no-activity message, and no report, when the current
\* period has no record, whatever the prior period has; and with a report of at
\* least one campaign, and no no-activity message, when it has records.
C6_NoActivityIffEmpty ==
    pc = "done" =>
        IF Current = <<>>
        THEN NoActivity /\ BlocksOf("totals") = {} /\ BlocksOf("campaign") = {}
        ELSE ~NoActivity /\ BlocksOf("totals") # {} /\ BlocksOf("campaign") # {}

\* no record of the current period while the prior period has some
C6_Witness ==
    pc = "done" /\ Current = <<>> /\ Prior # <<>> /\ NoActivity

\* C7: a record without its identity field is never grouped under the defaulted,
\* empty id: no ad of the hierarchy and no key of the index is the empty id.
C7_NoDefaultedIdentity ==
    /\ \A i \in 1..Len(campaigns) : \A j \in 1..Len(campaigns[i].adsets) :
         \A k \in 1..Len(campaigns[i].adsets[j].ads) :
            campaigns[i].adsets[j].ads[k].ad_id # ""
    /\ "" \notin DOMAIN prev_by_ad
    /\ \A i \in 1..Len(w_campaigns) : \A j \in 1..Len(w_campaigns[i].adsets) :
         w_campaigns[i].adsets[j].adset_id # ""
    /\ "" \notin DOMAIN w_prev_by_adset

\* the greatest value among the actions of a recognized type, 0 without any
MaxRecognized(actions, types) ==
    LET values == { actions[k].value :
                    k \in { i \in 1..Len(actions) : actions[i].action_type \in types } }
    IN  IF values = {} THEN 0 ELSE CHOOSE v \in values : \A w \in values : w <= v

\* C8: the leads of a parsed record are the greatest value among its actions of a
\* recognized type, whatever the order of the actions.
C8_LeadsAreTheMaximum ==
    /\ ev_fn = "parse_ad_metrics" =>
         ev_out[1].leads = MaxRecognized(ev_in.actions, DailyLeadTypes)
    /\ ev_fn = "parse_adset" =>
         ev_out[1].leads = MaxRecognized(ev_in.actions, LEAD_ACTION_TYPES)

TotalsBlock == CHOOSE b \in BlocksOf("totals") : TRUE

\* C9: the totals of the report are the sums over the campaign nodes, and their
\* trend is evaluated against the sums over all the records of the prior period
\* (stated for records that all carry their identity field).
C9_TotalsAgainstAllPrior ==
    (pc = "done" /\ Current # <<>> /\ WellFormed) =>
        IF script = "daily"
        THEN TotalsBlock.fields =
                daily_totals_fields(calc_derived(SumCounters(ZeroCounters, campaigns)),
                                    calc_derived(SumCounters(ZeroCounters, prev_ads)))
        ELSE TotalsBlock.fields =
                weekly_totals_line(SumCounters(ZeroCounters, w_campaigns),
                                   SumCounters(ZeroCounters, prev_adsets))

\* C10: once the index of the prior day is built, the entry of every campaign
\* node, and of every ad-set node inside its campaign, of the hierarchy of the
\* prior day's records holds that node's raw counters (stated for records that
\* all carry their identity field, the ad ids of a day distinct).
C10_IndexGroupsAsHierarchy ==
    (/\ script = "daily" /\ pc \in {"totals", "build", "done"} /\ WellFormed
     /\ \A k, l \in 1..Len(raw_day_before) :
            raw_day_before[k].ad_id = raw_day_before[l].ad_id => k = l) =>
        LET h == group_by_campaign_adset(prev_ads)
        IN  \A i \in 1..Len(h) :
                /\ Raw(prev_by_campaign[h[i].id]) = Raw(h[i])
                /\ \A j \in 1..Len(h[i].adsets) :
                     Raw(prev_by_adset[h[i].adsets[j].id]) = Raw(h[i].adsets[j])

\* the records the grouping loop has processed so far
Grouped ==
    LET all == IF script = "daily" THEN ads ELSE adsets
    IN  IF pc = "fetched" THEN <<>>
        ELSE IF pc = "group" THEN SubSeq(all, 1, idx - 1)
        ELSE all

OfCampaign(records, cid) ==
    LET Test(r) == r.campaign_id = cid
    IN  SelectSeq(records, Test)

OfAdset(records, asid) ==
    LET Test(r) == r.adset_id = asid
    IN  SelectSeq(records, Test)

FirstIndex(keys, x) ==
    CHOOSE k \in 1..Len(keys) : keys[k] = x /\ \A l \in 1..(k - 1) : keys[l] # x

\* ids are the keys, each once, in the order of their first occurrence
InFirstSeenOrder(ids, keys) ==
    /\ { ids[i] : i \in 1..Len(ids) } = { keys[k] : k \in 1..Len(keys) }
    /\ \A i, j \in 1..Len(ids) :
         i < j => FirstIndex(keys, ids[i]) < FirstIndex(keys, ids[j])

\* campaigns in the order their id is first seen, ad sets in the order their id is
\* first seen in their campaign, ads (weekly: ad sets) in the order of the input,
\* every node under the name of its first record
HierarchyInInputOrder ==
    LET P == Grouped
        cids == [k \in 1..Len(P) |-> P[k].campaign_id]
    IN  /\ script = "daily" =>
             /\ InFirstSeenOrder([i \in 1..Len(campaigns) |-> campaigns[i].id], cids)
             /\ \A i \in 1..Len(campaigns) :
                  LET c == campaigns[i]
                      Pc == OfCampaign(P, c.id)
                  IN  /\ c.name = Pc[1].campaign_name
                      /\ InFirstSeenOrder([j \in 1..Len(c.adsets) |-> c.adsets[j].id],
                                          [k \in 1..Len(Pc) |-> Pc[k].adset_id])
                      /\ \A j \in 1..Len(c.adsets) :
                           LET Ps == OfAdset(Pc, c.adsets[j].id)
                           IN  /\ c.adsets[j].name = Ps[1].adset_name
                               /\ c.adsets[j].ads = Ps
        /\ script = "weekly" =>
             /\ InFirstSeenOrder([i \in 1..Len(w_campaigns) |-> w_campaigns[i].id],
                                 cids)
             /\ \A i \in 1..Len(w_campaigns) :
                  LET c == w_campaigns[i]
                      Pc == OfCampaign(P, c.id)
                  IN  c.name = Pc[1].campaign_name /\ c.adsets = Pc

\* what the report shows of a node: its kind, id, name and spend
Shown(kind, id, name, spend) == << kind, id, name, Num(spend) >>

ReportNodes ==
    LET IsNode(b) == b.kind \in {"campaign", "adset", "ad"}
        nodes == SelectSeq(Blocks, IsNode)
    IN  [k \in 1..Len(nodes) |->
            << nodes[k].kind, nodes[k].id, nodes[k].name, nodes[k].fields[1].value >>]

\* the nodes of the daily hierarchy, every node followed by its children
DailyNodesInOrder ==
    LET OfAds(s) ==
            [k \in 1..Len(s.ads) |->
                Shown("ad", s.ads[k].ad_id, s.ads[k].ad_name, s.ads[k].spend)]
        OfAdsets(c) ==
            Concat([j \in 1..Len(c.adsets) |->
                       << Shown("adset", c.adsets[j].id, c.adsets[j].name,
                                c.adsets[j].spend) >> \o OfAds(c.adsets[j])])
    IN  Concat([i \in 1..Len(campaigns) |->
                   << Shown("campaign", campaigns[i].id, campaigns[i].name,
                            campaigns[i].spend) >> \o OfAdsets(campaigns[i])])

\* the nodes of the weekly hierarchy, the ad sets of a campaign as Order lists them
WeeklyNodesBy(Order(_)) ==
    LET OfAdsets(c) ==
            LET listed == Order(c.adsets)
            IN  [j \in 1..Len(listed) |->
                    Shown("adset", listed[j].adset_id, listed[j].adset_name,
                          listed[j].spend)]
    IN  Concat([i \in 1..Len(w_campaigns) |->
                   << Shown("campaign", w_campaigns[i].id, w_campaigns[i].name,
                            w_campaigns[i].spend) >> \o OfAdsets(w_campaigns[i])])

AsListed(listed) == listed

\* the greater spend first, and of two equal spends the one listed first
BySpendThenListed(listed) ==
    LET p == CHOOSE q \in Permutations(1..Len(listed)) :
                 \A k, l \in 1..Len(listed) :
                     k < l => \/ listed[q[k]].spend > listed[q[l]].spend
                              \/ /\ listed[q[k]].spend = listed[q[l]].spend
                                 /\ q[k] < q[l]
    IN  [k \in 1..Len(listed) |-> listed[p[k]]]

Reported == pc = "done" /\ Current # <<>>

\* C11 as stated: the hierarchy and the report sent keep the order of the input at
\* every level (campaigns and ad sets as first seen, ads as listed), no level is
\* sorted by a metric, and a node keeps the name of its first record.
C11_InsertionOrderEverywhere ==
    /\ HierarchyInInputOrder
    /\ (Reported /\ script = "daily") => ReportNodes = DailyNodesInOrder
    /\ (Reported /\ script = "weekly") => ReportNodes = WeeklyNodesBy(AsListed)

\* C11 amended: the hierarchy keeps the order of the input at every level and the
\* name of the first record; the daily report shows it in that order; the weekly
\* report shows the campaigns in that order and the ad sets of a campaign by
\* spend, the greater first, equal spends in the order of the input.
C11_InsertionOrderButWeeklyAdsetsBySpend ==
    /\ HierarchyInInputOrder
    /\ (Reported /\ script = "daily") => ReportNodes = DailyNodesInOrder
    /\ (Reported /\ script = "weekly") => ReportNodes = WeeklyNodesBy(BySpendThenListed)

\* a weekly report of a campaign whose second ad set, renamed, spent more than the
\* first: it is shown first, under the campaign's first name
C11_Witness ==
    /\ Reported /\ script = "weekly"
    /\ Len(w_campaigns[1].adsets) = 2
    /\ w_campaigns[1].adsets[1].spend < w_campaigns[1].adsets[2].spend
    /\ w_campaigns[1].adsets[2].campaign_name # w_campaigns[1].name
    /\ ReportNodes[2][2] = w_campaigns[1].adsets[2].adset_id
    /\ ReportNodes[2][4] = Num(w_campaigns[1].adsets[2].spend)
    /\ ReportNodes[1][3] = w_campaigns[1].adsets[1].campaign_name

Count(records, r) == Cardinality({ k \in 1..Len(records) : records[k] = r })

\* the ads of the daily hierarchy under a campaign id and an ad-set id
AdsUnder(cid, asid) ==
    Concat([i \in 1..Len(campaigns) |->
               IF campaigns[i].id # cid THEN <<>>
               ELSE Concat([j \in 1..Len(campaigns[i].adsets) |->
                               IF campaigns[i].adsets[j].id # asid THEN <<>>
                               ELSE campaigns[i].adsets[j].ads])])

\* the ad sets of the weekly hierarchy under a campaign id
AdsetsUnder(cid) ==
    Concat([i \in 1..Len(w_campaigns) |->
               IF w_campaigns[i].id # cid THEN <<>> ELSE w_campaigns[i].adsets])

\* all the leaf entries of the hierarchy
AdsUnderAll ==
    Concat([i \in 1..Len(campaigns) |->
               Concat([j \in 1..Len(campaigns[i].adsets) |->
                          campaigns[i].adsets[j].ads])])

AdsetsUnderAll == Concat([i \in 1..Len(w_campaigns) |-> w_campaigns[i].adsets])

\* C12: after the grouping loop has processed n records, the hierarchy holds n leaf
\* entries in all, and every processed record is, as often as it was processed,
\* in the ad-set node of its ad-set id inside the campaign node of its campaign id
\* (weekly: in the campaign node of its campaign id), so none is dropped or
\* duplicated.
C12_EveryRecordOnce ==
    LET P == Grouped
    IN  /\ script = "daily" =>
             /\ Len(AdsUnderAll) = Len(P)
             /\ \A k \in 1..Len(P) :
                  Count(AdsUnder(P[k].campaign_id, P[k].adset_id), P[k]) = Count(P, P[k])
        /\ script = "weekly" =>
             /\ Len(AdsetsUnderAll) = Len(P)
             /\ \A k \in 1..Len(P) :
                  Count(AdsetsUnder(P[k].campaign_id), P[k]) = Count(P, P[k])

\* three ads processed into two campaigns, two of them into one ad set
C12_Witness ==
    /\ script = "daily" /\ pc = "parse_prev"
    /\ Len(ads) = 3 /\ Len(campaigns) = 2
    /\ \E i \in 1..2 : \E j \in 1..Len(campaigns[i].adsets) :
         Len(campaigns[i].adsets[j].ads) = 2

\* C13: a percentage is produced exactly when the prior value p is not 0; its value
\* is (c - p) / p * 100, printed as the nearest number of one decimal (daily) or
\* of none (weekly); it carries "+" exactly when c > p and "-" exactly when
\* c < p, and for c = p it is 0 without a sign.
C13_PercentageChange ==
    ev_fn # "" =>
        LET c == ev_in.current
            p == ev_in.previous
            o == ev_out[1]
        IN  /\ o = None <=> p = 0
            /\ p # 0 =>
                 LET t == o[1]
                     exact == Abs(c - p) * 100 * 10^t.decimals
                 IN  /\ RatEq(t.change, Rat((c - p) * 100, p))
                     /\ t.decimals = IF ev_fn = "pct_change" THEN 1 ELSE 0
                     /\ 2 * Abs(t.text.units * p - exact) <= p
                     /\ t.sign = "+" <=> c > p
                     /\ t.text.minus <=> c < p
                     /\ c = p => t.text.units = 0 /\ t.sign = "" /\ ~t.text.minus

\* c = 6 against p = 5: " (+20%)" weekly, " (+20.0%)" daily
C13_Witness ==
    /\ ev_fn \in {"pct", "pct_change"}
    /\ ev_in.current = 6 /\ ev_in.previous = 5
    /\ ev_out[1] # None
    /\ ev_out[1][1].sign = "+" /\ ~ev_out[1][1].text.minus
    /\ ev_out[1][1].text.units = IF ev_fn = "pct" THEN 20 ELSE 200

\* the records of the prior period the lookup loop has processed so far
Indexed ==
    LET all == IF script = "daily" THEN prev_ads ELSE prev_adsets
    IN  IF pc = "lookup" THEN SubSeq(all, 1, idx - 1)
        ELSE IF pc \in {"totals", "derive", "build", "done"} THEN all
        ELSE <<>>

Keyed(records, key, id) ==
    LET Test(r) == r[key] = id
    IN  SelectSeq(records, Test)

\* the mapping has the ids of the records as its keys, and under each the sums of
\* the raw counters of the records of that id
HoldsSums(mapping, records, key) ==
    /\ DOMAIN mapping = { records[k][key] : k \in 1..Len(records) }
    /\ \A id \in DOMAIN mapping : \A f \in RawFields :
         mapping[id][f] = SumField(Keyed(records, key, id), f)

\* C14: after the lookup loop has processed any prefix of the records of the prior
\* period (one record per ad, weekly per ad set), each mapping of the index has a
\* key exactly when a processed record carries that id, and under it the sums of
\* the raw counters of the processed records of that id; an id of no processed
\* record is not a key.
C14_IndexHoldsSumsOfPrefix ==
    LET P == Indexed
    IN  /\ script = "daily" =>
             /\ HoldsSums(prev_by_ad, P, "ad_id")
             /\ HoldsSums(prev_by_adset, P, "adset_id")
             /\ HoldsSums(prev_by_campaign, P, "campaign_id")
        /\ script = "weekly" =>
             /\ HoldsSums(w_prev_by_adset, P, "adset_id")
             /\ HoldsSums(w_prev_by_campaign, P, "campaign_id")

\* two ads of one ad set of campaign c2 the day before, both with spend, and an ad
\* of campaign c1 today: c2 holds the sum of the two, c1 is no key
C14_Witness ==
    /\ script = "daily" /\ pc = "totals"
    /\ Len(prev_ads) = 2
    /\ prev_ads[1].campaign_id = "c2" /\ prev_ads[2].campaign_id = "c2"
    /\ prev_ads[1].adset_id = prev_ads[2].adset_id
    /\ prev_ads[1].spend = 3 /\ prev_ads[2].spend = 5
    /\ prev_by_campaign["c2"].spend = 8
    /\ prev_by_adset[prev_ads[1].adset_id].spend = 8
    /\ ads[1].campaign_id = "c1" /\ "c1" \notin DOMAIN prev_by_campaign

====
